---- MODULE Spec2Model ----
(***************************************************************************)
(* The books route (src/src/app/api/books/route.ts): the four HTTP         *)
(* handlers GET, POST, PUT and DELETE over a graph store holding Book,     *)
(* Author and Genre nodes and WROTE / IN_GENRE relationships.  Each        *)
(* handler runs one Cypher statement in an auto-commit transaction, so a   *)
(* handler is one atomic step; the statement is modelled clause by clause  *)
(* (rows in, rows out).                                                    *)
(*                                                                         *)
(* Strings are sequences of one-character strings, so that toLower and     *)
(* CONTAINS are computed, not assumed.                                     *)
(***************************************************************************)
EXTENDS Integers, Sequences, FiniteSets, Bags, TLC

VARIABLES books, authors, genres, wrote, inGenre, req, resp

vars == <<books, authors, genres, wrote, inGenre, req, resp>>
store == <<books, authors, genres, wrote, inGenre>>

----------------------------------------------------------------------------
(* Bounds of the model *)

\* at most this many Book nodes at once under Spec (node ids 0 .. MaxBooks-1)
MaxBooks == 2
\* longest authors / genres list of a request body
MaxLen == 2
\* at most this many Book nodes at once under SpecBook, whose bodies range
\* over every list
OneBook == 1

----------------------------------------------------------------------------
(* Strings *)

Digits == <<"0", "1", "2", "3", "4", "5", "6", "7", "8", "9">>

LowerChar(c) ==
    CASE c = "A" -> "a"
      [] c = "B" -> "b"
      [] c = "T" -> "t"
      [] c = "X" -> "x"
      [] c = "Y" -> "y"
      [] OTHER -> c

\* Cypher toLower()
ToLower(s) == [i \in 1..Len(s) |-> LowerChar(s[i])]

\* Cypher: s CONTAINS t
Contains(s, t) == \E i \in 0..(Len(s) - Len(t)) : SubSeq(s, i + 1, i + Len(t)) = t

\* bookNode.identity.toString()
RECURSIVE IntToStr(_)
IntToStr(n) ==
    IF n < 10 THEN <<Digits[n + 1]>>
    ELSE IntToStr(n \div 10) \o <<Digits[(n % 10) + 1]>>

DigitVal(c) == CHOOSE d \in 0..9 : Digits[d + 1] = c

\* neo4j.int(id) of a string of decimal digits
RECURSIVE StrToInt(_)
StrToInt(s) ==
    IF s = <<>> THEN 0
    ELSE 10 * StrToInt(SubSeq(s, 1, Len(s) - 1)) + DigitVal(s[Len(s)])

RECURSIVE Repeat(_, _)
Repeat(list, n) == IF n = 0 THEN <<>> ELSE list \o Repeat(list, n - 1)

\* the sequences over S of length at most n
BoundedSeq(S, n) == UNION {[1..k -> S] : k \in 0..n}

\* the bag of F(x), x in S
BagMap(F(_), S) == [v \in {F(x) : x \in S} |-> Cardinality({x \in S : F(x) = v})]

----------------------------------------------------------------------------
(* JavaScript / JSON values of a request or a response *)

\* s is the text of a string, v the elements of an array
Undefined == [kind |-> "undefined", s |-> <<>>, v |-> <<>>]
JNull == [kind |-> "null", s |-> <<>>, v |-> <<>>]
JString(s) == [kind |-> "string", s |-> s, v |-> <<>>]
JArray(l) == [kind |-> "array", s |-> <<>>, v |-> l]

\* !x is false
Truthy(x) == x.kind = "array" \/ (x.kind = "string" /\ x.s # <<>>)
IsArray(x) == x.kind = "array"

\* JSON.stringify of an array element: undefined is written as null
JsonElem(x) == IF x.kind = "undefined" THEN JNull ELSE x

----------------------------------------------------------------------------
(* Inputs *)

Names == {<<"A">>, <<"a", "B">>}
GenreNames == {<<"X">>, <<"x", "Y">>}
Titles == {<<"T">>, <<"t", "2">>}
\* what uuidv4() may return
Uuids == {<<"u", "1">>, <<"u", "2">>}

\* the node ids the store assigns to Book nodes
BookIds == 0..(MaxBooks - 1)
OneBookIds == 0..(OneBook - 1)


----------------------------------------------------------------------------
(* The graph store *)

\* A node of label Author or Genre: its name property; n tells apart nodes
\* that carry the same name.
Node(name, n) == [name |-> name, n |-> n]
NoNode == [name |-> <<>>, n |-> -1]

MatchNodes(nodes, name) == {x \in nodes : x.name = name}

\* (mutant) CREATE in the place of MERGE: a new node whatever exists
MergeNode_Create(nodes, name) ==
    nodes \cup {Node(name, Cardinality(MatchNodes(nodes, name)))}

\* MERGE (a:Author { name: authorName }): the matching nodes, or a new one
MergeNode(nodes, name) ==
    IF MatchNodes(nodes, name) # {} THEN nodes ELSE nodes \cup {Node(name, 0)}

\* MERGE (a)-[:WROTE]->(b) for each edge of es: created where none exists
MergeRels(rels, es) == rels (+) SetToBag({e \in es : ~BagIn(e, rels)})

Edge(x, b, isAuthor) == IF isAuthor THEN <<x, b>> ELSE <<b, x>>

\* (mutant) the pattern not anchored at b: every relationship
RelsOf_Unanchored(rels, b, isAuthor) == BagToSet(rels)

\* the relationships of rels that touch Book b
RelsOf(rels, b, isAuthor) ==
    {e \in BagToSet(rels) : e[IF isAuthor THEN 2 ELSE 1] = b}

\* the Author (Genre) nodes linked to Book b
Linked(rels, b, isAuthor) ==
    {e[IF isAuthor THEN 1 ELSE 2] : e \in RelsOf(rels, b, isAuthor)}

\* the number of relationships of es in rels, parallel ones counted
CountRels(rels, es) == BagCardinality([e \in es |-> CopiesIn(e, rels)])

\* (mutant) no DELETE of the old relationships
DeleteRels_Skip(rels, es) == rels

\* rels without the relationships of es
DeleteRels(rels, es) == [e \in BagToSet(rels) \ es |-> rels[e]]

\* (mutant) RETURN with no grouping key: one record even of no rows
Records_Ungrouped(rows) == 1

\* RETURN b, ..., collect(...): one record per b among the rows, none of no rows
Records(rows) == IF rows > 0 THEN 1 ELSE 0

(* UNWIND $list AS name  MERGE (x { name: name })  MERGE (x)-[]-(b), run on
   the rows `list` (the request's list once per incoming row): the nodes and
   relationships afterwards, the number of rows it yields and the nodes those
   rows bind. *)
RECURSIVE UnwindMerge(_, _, _, _, _)
UnwindMerge(nodes, rels, list, b, isAuthor) ==
    IF list = <<>>
    THEN [nodes |-> nodes, rels |-> rels, rows |-> 0, bound |-> {}]
    ELSE LET n1 == MergeNode(nodes, Head(list))
             ms == MatchNodes(n1, Head(list))
             es == {Edge(m, b, isAuthor) : m \in ms}
             r1 == MergeRels(rels, es)
             rest == UnwindMerge(n1, r1, Tail(list), b, isAuthor)
         IN  [nodes |-> rest.nodes, rels |-> rest.rels,
              rows |-> CountRels(r1, es) + rest.rows,
              bound |-> ms \cup rest.bound]

----------------------------------------------------------------------------
(* Responses *)

NoData == EmptyBag

Response(op, status, success, error, data, deletedCount) ==
    [op |-> op, status |-> status, success |-> success, error |-> error,
     data |-> data, deletedCount |-> deletedCount]

Request(op, id, title, bookId, as, gs) ==
    [op |-> op, id |-> id, title |-> title, bookId |-> bookId,
     authors |-> as, genres |-> gs]

\* { id, ...bookNode.properties, authors, genres }
BookJson(id, props, as, gs) ==
    [id |-> IntToStr(id), bookId |-> props.bookId, title |-> props.title,
     authors |-> as, genres |-> gs]

\* a.properties.name of a driver Node
NodePropertiesName(a) == JString(a.name)

\* a.name of a driver Node: a Node has identity, labels, properties and
\* elementId, and no field `name`
NodeName(a) == Undefined

NoRequest == Request("none", Undefined, Undefined, Undefined, Undefined, Undefined)
NoResponse == Response("none", 0, FALSE, "", NoData, -1)

\* no request is being handled
Idle == req.op = "none"

----------------------------------------------------------------------------
(* POST *)

PostValidation(title, as, gs) ==
    IF ~Truthy(title) THEN "Book title missing"
    ELSE IF ~Truthy(as) \/ ~IsArray(as) \/ Len(as.v) = 0
         THEN "At least one author required"
    ELSE IF ~Truthy(gs) \/ ~IsArray(gs) \/ Len(gs.v) = 0
         THEN "At least one genre required"
    ELSE "ok"

\* record.get("authors").map((a) => a.name), as the JSON body carries it
PostNames(nodes) == BagMap(LAMBDA a : JsonElem(NodeName(a)), nodes)

POST(ids, title, as, gs) ==
    /\ req' = Request("POST", Undefined, title, Undefined, as, gs)
    /\ IF PostValidation(title, as, gs) # "ok"
       THEN /\ resp' = Response("POST", 200, FALSE, PostValidation(title, as, gs),
                                NoData, -1)
            /\ UNCHANGED store
       ELSE \E id \in ids \ DOMAIN books, u \in Uuids :
              LET props == [bookId |-> u, title |-> title.s]
                  \* UNWIND $authors ... MERGE ... MERGE
                  ra == UnwindMerge(authors, wrote, as.v, id, TRUE)
                  \* WITH b, collect(DISTINCT a) AS authors
                  rows1 == Records(ra.rows)
                  \* UNWIND $genres ... MERGE ... MERGE
                  rg == UnwindMerge(genres, inGenre, Repeat(gs.v, rows1), id, FALSE)
                  \* RETURN b, authors, collect(DISTINCT g) AS genres
                  records == Records(rg.rows)
              IN  /\ books' = (id :> props) @@ books
                  /\ authors' = ra.nodes
                  /\ wrote' = ra.rels
                  /\ genres' = rg.nodes
                  /\ inGenre' = rg.rels
                  /\ resp' =
                       IF records = 0
                       THEN \* result.records[0] is undefined: record.get throws
                            Response("POST", 200, FALSE, "TypeError", NoData, -1)
                       ELSE Response("POST", 200, TRUE, "",
                                SetToBag({BookJson(id, props, PostNames(ra.bound),
                                                   PostNames(rg.bound))}),
                                -1)

----------------------------------------------------------------------------
(* PUT *)

PutValidation(title, as, gs) ==
    IF ~Truthy(title) THEN "Book title missing"
    ELSE IF ~Truthy(as) \/ ~IsArray(as) THEN "Authors must be an array"
    ELSE IF ~Truthy(gs) \/ ~IsArray(gs) THEN "Genres must be an array"
    ELSE "ok"

\* (mutant) MATCH (b:Book) with the WHERE clause lost
MatchBook_NoWhere(id) == DOMAIN books

\* MATCH (b:Book) WHERE id(b) = $id
MatchBook(id) == {b \in DOMAIN books : b = id}

\* OPTIONAL MATCH on one row: a row per relationship, or one row of nulls
OptionalRows(n) == IF n = 0 THEN 1 ELSE n

\* collect(DISTINCT a.name)
CollectNames(nodes) == SetToBag({JString(a.name) : a \in nodes})

PUT(idParam, title, as, gs) ==
    /\ req' = Request("PUT", idParam, title, Undefined, as, gs)
    /\ IF ~Truthy(idParam)
       THEN /\ resp' = Response("PUT", 400, FALSE, "Missing required id", NoData, -1)
            /\ UNCHANGED store
       ELSE IF PutValidation(title, as, gs) # "ok"
       THEN /\ resp' = Response("PUT", 500, FALSE, PutValidation(title, as, gs),
                                NoData, -1)
            /\ UNCHANGED store
       ELSE IF MatchBook(StrToInt(idParam.s)) = {}
       THEN \* no row: no clause acts and the statement returns no record
            /\ resp' = Response("PUT", 404, FALSE, "Book not found", NoData, -1)
            /\ UNCHANGED store
       ELSE LET \* the row of the MATCH
                b == CHOOSE k \in MatchBook(StrToInt(idParam.s)) : TRUE
                \* SET b.title = $title
                props == [books[b] EXCEPT !.title = title.s]
                \* OPTIONAL MATCH (b)<-[oldRel:WROTE]-(:Author)  DELETE oldRel
                oldA == RelsOf(wrote, b, TRUE)
                rows1 == OptionalRows(CountRels(wrote, oldA))
                w1 == DeleteRels(wrote, oldA)
                \* OPTIONAL MATCH (b)-[oldRel2:IN_GENRE]->(:Genre)  DELETE oldRel2
                oldG == RelsOf(inGenre, b, FALSE)
                rows2 == rows1 * OptionalRows(CountRels(inGenre, oldG))
                g1 == DeleteRels(inGenre, oldG)
                \* UNWIND $authors ... MERGE ... MERGE, once per row
                ra == UnwindMerge(authors, w1, Repeat(as.v, rows2), b, TRUE)
                \* UNWIND $genres ... MERGE ... MERGE, once per row
                rg == UnwindMerge(genres, g1, Repeat(gs.v, ra.rows), b, FALSE)
                \* RETURN b, collect(DISTINCT a.name), collect(DISTINCT g.name)
                records == Records(rg.rows)
            IN  /\ books' = [books EXCEPT ![b] = props]
                /\ authors' = ra.nodes
                /\ wrote' = ra.rels
                /\ genres' = rg.nodes
                /\ inGenre' = rg.rels
                /\ resp' =
                     IF records = 0
                     THEN Response("PUT", 404, FALSE, "Book not found", NoData, -1)
                     ELSE Response("PUT", 200, TRUE, "",
                              SetToBag({BookJson(b, props,
                                  CollectNames(Linked(ra.rels, b, TRUE)),
                                  CollectNames(Linked(rg.rels, b, FALSE)))}),
                              -1)

----------------------------------------------------------------------------
(* DELETE *)

DELETE(idParam) ==
    /\ req' = Request("DELETE", idParam, Undefined, Undefined, Undefined, Undefined)
    /\ IF ~Truthy(idParam)
       THEN /\ resp' = Response("DELETE", 400, FALSE, "Missing required id", NoData, -1)
            /\ UNCHANGED store
       ELSE LET matched == MatchBook(StrToInt(idParam.s))
            IN  \* DETACH DELETE b  RETURN count(b) AS deletedCount
                /\ books' = [b \in DOMAIN books \ matched |-> books[b]]
                /\ wrote' = DeleteRels(wrote,
                              UNION {RelsOf(wrote, b, TRUE) : b \in matched})
                /\ inGenre' = DeleteRels(inGenre,
                              UNION {RelsOf(inGenre, b, FALSE) : b \in matched})
                /\ UNCHANGED <<authors, genres>>
                /\ resp' = Response("DELETE", 200, TRUE, "", NoData,
                                    Cardinality(matched))

----------------------------------------------------------------------------
(* GET *)

\* the conditions pushed, in order
Conditions(id, title, bookId, as, gs) ==
    (IF Truthy(id) THEN <<"id">> ELSE <<>>)
        \o (IF Truthy(title) THEN <<"title">> ELSE <<>>)
        \o (IF Truthy(bookId) THEN <<"bookId">> ELSE <<>>)
        \o (IF Len(as.v) > 0 THEN <<"authors">> ELSE <<>>)
        \o (IF Len(gs.v) > 0 THEN <<"genres">> ELSE <<>>)

\* EXISTS { MATCH (b)-[]-(x) WHERE any(searchName IN $terms WHERE
\*          toLower(x.name) CONTAINS toLower(searchName)) }
ExistsMatch(rels, b, isAuthor, terms) ==
    \E x \in Linked(rels, b, isAuthor) :
        \E i \in 1..Len(terms) : Contains(ToLower(x.name), ToLower(terms[i]))

Condition(c, b, id, title, bookId, as, gs) ==
    CASE c = "id" -> b = StrToInt(id.s)
      [] c = "title" -> Contains(ToLower(books[b].title), ToLower(title.s))
      [] c = "bookId" -> books[b].bookId = bookId.s
      [] c = "authors" -> ExistsMatch(wrote, b, TRUE, as.v)
      [] c = "genres" -> ExistsMatch(inGenre, b, FALSE, gs.v)

\* (mutant) conditions.join(" OR ")
Where_Or(conds, b, id, title, bookId, as, gs) ==
    conds = <<>> \/ \E i \in 1..Len(conds) :
                      Condition(conds[i], b, id, title, bookId, as, gs)

\* conditions.join(" AND "), or no WHERE clause at all
Where(conds, b, id, title, bookId, as, gs) ==
    \A i \in 1..Len(conds) : Condition(conds[i], b, id, title, bookId, as, gs)

\* OPTIONAL MATCH: the nodes linked to b, or one null
OptionalNodes(rels, b, isAuthor) ==
    IF Linked(rels, b, isAuthor) = {} THEN {NoNode} ELSE Linked(rels, b, isAuthor)

\* MATCH (b:Book) WHERE ... OPTIONAL MATCH ... OPTIONAL MATCH: the rows <<b, a, g>>
GetRows(conds, id, title, bookId, as, gs) ==
    UNION {OptionalNodes(wrote, b, TRUE) \X OptionalNodes(inGenre, b, FALSE) \X {b}
             : b \in {x \in DOMAIN books : Where(conds, x, id, title, bookId, as, gs)}}

\* the grouping keys of RETURN b, collect(DISTINCT a), collect(DISTINCT g)
GroupKeys(rows) == {r[3] : r \in rows}

\* (mutant) .map((a) => a.name), as POST maps its nodes
GetNames_NoProperties(nodes) == BagMap(LAMBDA a : JsonElem(NodeName(a)), nodes \ {NoNode})

\* collect(DISTINCT a) of a group, then .filter((a) => a).map((a) => a.properties.name)
GetNames(nodes) == BagMap(NodePropertiesName, nodes \ {NoNode})

GetData(id, title, bookId, as, gs) ==
    LET rows == GetRows(Conditions(id, title, bookId, as, gs), id, title, bookId, as, gs)
        Record(k) ==
            BookJson(k, books[k],
                     GetNames({r[1] : r \in {x \in rows : x[3] = k}}),
                     GetNames({r[2] : r \in {x \in rows : x[3] = k}}))
    IN  BagMap(Record, GroupKeys(rows))

GET(id, title, bookId, as, gs) ==
    /\ req' = Request("GET", id, title, bookId, as, gs)
    /\ resp' = Response("GET", 200, TRUE, "", GetData(id, title, bookId, as, gs), -1)
    /\ UNCHANGED store

----------------------------------------------------------------------------
(* The response is sent and the handler ends (finally: session.close()) *)

Respond ==
    /\ ~Idle
    /\ req' = NoRequest
    /\ resp' = NoResponse
    /\ UNCHANGED store

----------------------------------------------------------------------------
(* Request inputs *)

\* a body with every field well-formed (an empty list included)
GoodBodies(AN, GN) ==
    {<<JString(t), JArray(as), JArray(gs)>> :
        t \in Titles, as \in BoundedSeq(AN, MaxLen), gs \in BoundedSeq(GN, MaxLen)}

\* one field missing or of the wrong type, the others well-formed
BadBodies ==
    LET t == JString(<<"T">>)
        as == JArray(<<<<"A">>>>)
        gs == JArray(<<<<"X">>>>)
    IN  {<<x, as, gs>> : x \in {Undefined, JString(<<>>)}}
          \cup {<<t, x, gs>> : x \in {Undefined, JString(<<"A">>)}}
          \cup {<<t, as, x>> : x \in {Undefined, JString(<<"X">>)}}

\* ?id= naming a node id: every Book id and one beyond them, one with leading zero
IdStrings(ids) ==
    {JString(<<"0", "0">>)} \cup {JString(IntToStr(i)) : i \in ids \cup {Cardinality(ids)}}

\* ?id= absent or empty
NoIds == {Undefined, JString(<<>>)}

IdInputs(ids) == IdStrings(ids) \cup NoIds

\* PUT: every body on every id; one body without id
PutInputs(ids, bodies) ==
    (IdStrings(ids) \X bodies)
        \cup (NoIds \X {<<JString(<<"T">>), JArray(<<<<"A">>>>), JArray(<<<<"X">>>>)>>})

NoTerms == JArray(<<>>)

\* GET ?id= alone
IdFilters(ids) == {<<id, Undefined, Undefined, NoTerms, NoTerms>> : id \in IdInputs(ids)}

\* GET with every combination of filters present and absent
AllFilters ==
    {Undefined, JString(<<>>), JString(<<"0">>), JString(<<"0", "1">>)}
      \X {Undefined, JString(<<>>), JString(<<"T">>)}
      \X {Undefined, JString(<<"u", "1">>)}
      \X {NoTerms, JArray(<<<<"a">>>>), JArray(<<<<"c">>, <<"B">>>>)}
      \X {NoTerms, JArray(<<<<"Y">>>>), JArray(<<<<>>>>)}

\* Spec: a few bodies, the malformed ones, and every combination of filters
SpecBodies ==
    {<<JString(<<"T">>), JArray(<<<<"A">>>>), JArray(<<<<"X">>>>)>>,
     <<JString(<<"t", "2">>), JArray(<<<<"A">>, <<"a", "B">>>>), JArray(<<<<"x", "Y">>>>)>>,
     <<JString(<<"T">>), JArray(<<<<"a", "B">>, <<"a", "B">>>>), JArray(<<<<"X">>, <<"x", "Y">>>>)>>,
     <<JString(<<"T">>), JArray(<<<<"a", "B">>>>), JArray(<<>>)>>,
     <<JString(<<"t", "2">>), JArray(<<>>), JArray(<<<<"X">>>>)>>}
        \cup BadBodies
SpecPuts == PutInputs(BookIds, SpecBodies)

\* SpecBook: every body, and GET by id
BookBodies == GoodBodies(Names, GenreNames) \cup BadBodies
BookPuts == PutInputs(OneBookIds, BookBodies)
BookFilters == IdFilters(OneBookIds)

Init ==
    /\ books = <<>>
    /\ authors = {}
    /\ genres = {}
    /\ wrote = EmptyBag
    /\ inGenre = EmptyBag
    /\ req = NoRequest
    /\ resp = NoResponse

\* a request arrives when none is being handled, and is handled in one step
Handle(ids, bodies, puts, filters) ==
    \/ Idle /\ \E body \in bodies : POST(ids, body[1], body[2], body[3])
    \/ Idle /\ \E in \in puts : PUT(in[1], in[2][1], in[2][2], in[2][3])
    \/ Idle /\ \E id \in IdInputs(ids) : DELETE(id)
    \/ Idle /\ \E f \in filters : GET(f[1], f[2], f[3], f[4], f[5])

\* at most MaxBooks Books
Next ==
    \/ Handle(BookIds, SpecBodies, SpecPuts, AllFilters)
    \/ Respond

\* at most OneBook Books
NextBook ==
    \/ Handle(OneBookIds, BookBodies, BookPuts, BookFilters)
    \/ Respond

Spec == Init /\ [][Next]_vars
SpecBook == Init /\ [][NextBook]_vars

----------------------------------------------------------------------------
(* Vocabulary of the properties *)

ListSet(l) == {l[i] : i \in 1..Len(l)}

\* a list of names, each once, in any order
NameList(S) == SetToBag({JString(n) : n \in S})

AuthorNamesOf(b) == {e[1].name : e \in {x \in BagToSet(wrote) : x[2] = b}}
GenreNamesOf(b) == {e[2].name : e \in {x \in BagToSet(inGenre) : x[1] = b}}

\* the book a POST or PUT answers with
Answer == CHOOSE r \in BagToSet(resp.data) : TRUE

Succeeded(op) == req.op = op /\ resp.op = op /\ resp.success

\* the body passes PUT's validation: a title and two arrays
PutAccepts(r) == Truthy(r.title) /\ IsArray(r.authors) /\ IsArray(r.genres)

----------------------------------------------------------------------------
(* C1: at most one Author node per name and one Genre node per name, and an
   Author named by several books has exactly one WROTE relationship to each
   of them. *)
C1_OneEntityPerName ==
    /\ \A x, y \in authors : x.name = y.name => x = y
    /\ \A x, y \in genres : x.name = y.name => x = y
    /\ \A e \in BagToSet(wrote) : e[1] \in authors /\ CopiesIn(e, wrote) = 1
    /\ \A e \in BagToSet(inGenre) : e[2] \in genres

\* a second book has just been created and names an author of the first
C1_Witness ==
    /\ Succeeded("POST")
    /\ \E b \in DOMAIN books, a \in authors :
         /\ b # StrToInt(Answer.id)
         /\ BagIn(<<a, b>>, wrote)
         /\ BagIn(<<a, StrToInt(Answer.id)>>, wrote)

(* C2: after a PUT that answers success, the names of the Authors (Genres)
   linked to the Book are exactly the names of the request's authors (genres)
   list, and the answer carries those names, each once. *)
C2_UpdateReplaces ==
    Succeeded("PUT") =>
        LET b == StrToInt(req.id.s)
        IN  /\ AuthorNamesOf(b) = ListSet(req.authors.v)
            /\ GenreNamesOf(b) = ListSet(req.genres.v)
            /\ Answer.authors = NameList(ListSet(req.authors.v))
            /\ Answer.genres = NameList(ListSet(req.genres.v))

\* a PUT has succeeded whose lists leave out an Author and a Genre of the store
C2_Witness ==
    /\ Succeeded("PUT")
    /\ \E a \in authors : a.name \notin ListSet(req.authors.v)
    /\ \E g \in genres : g.name \notin ListSet(req.genres.v)

(* C3: after a POST or a PUT that answers success, the Book answered has at
   least one linked Author and at least one linked Genre. *)
C3_LinkedAfterSuccess ==
    (Succeeded("POST") \/ Succeeded("PUT")) =>
        /\ StrToInt(Answer.id) \in DOMAIN books
        /\ AuthorNamesOf(StrToInt(Answer.id)) # {}
        /\ GenreNamesOf(StrToInt(Answer.id)) # {}

\* a PUT has succeeded on a Book
C3_Witness == Succeeded("PUT") /\ AuthorNamesOf(StrToInt(Answer.id)) # {}

(* C4: after a successful POST, GET ?id=<the new id> returns exactly one
   record: the request's title and the distinct names of its authors and of
   its genres, each once. *)
C4_CreateThenGet ==
    Succeeded("POST") =>
        GetData(JString(Answer.id), Undefined, Undefined, NoTerms, NoTerms)
          = SetToBag({[id |-> Answer.id,
                       bookId |-> Answer.bookId,
                       title |-> req.title.s,
                       authors |-> NameList(ListSet(req.authors.v)),
                       genres |-> NameList(ListSet(req.genres.v))]})

\* a POST has succeeded whose authors list names an author twice
C4_Witness ==
    /\ Succeeded("POST")
    /\ Len(req.authors.v) > Cardinality(ListSet(req.authors.v))

(* C5: the success response of POST carries the id as a string, the title,
   the catalog id, and as authors (genres) the distinct names of the
   request's authors (genres). *)
C5_CreateResponse ==
    Succeeded("POST") =>
        /\ StrToInt(Answer.id) \in DOMAIN books
        /\ Answer.title = req.title.s
        /\ Answer.bookId = books[StrToInt(Answer.id)].bookId
        /\ Answer.authors = NameList(ListSet(req.authors.v))
        /\ Answer.genres = NameList(ListSet(req.genres.v))

(* C6: GET returns each Book that satisfies every supplied filter exactly
   once, with the names of its linked Authors and Genres, and no other Book.
   A filter is supplied when its parameter is a non-empty string (id, title,
   bookId) or at least one term is given (author, genre). *)
Supplied(x) == x.kind = "string" /\ x.s # <<>>

MatchesTerms(names, terms) ==
    \E n \in names, t \in ListSet(terms) : Contains(ToLower(n), ToLower(t))

Satisfies(b, r) ==
    /\ Supplied(r.id) => b = StrToInt(r.id.s)
    /\ Supplied(r.title) => Contains(ToLower(books[b].title), ToLower(r.title.s))
    /\ Supplied(r.bookId) => books[b].bookId = r.bookId.s
    /\ r.authors.v # <<>> => MatchesTerms(AuthorNamesOf(b), r.authors.v)
    /\ r.genres.v # <<>> => MatchesTerms(GenreNamesOf(b), r.genres.v)

BookView(b) ==
    [id |-> IntToStr(b), bookId |-> books[b].bookId, title |-> books[b].title,
     authors |-> NameList(AuthorNamesOf(b)), genres |-> NameList(GenreNamesOf(b))]

C6_GetFilters ==
    resp.op = "GET" =>
        /\ resp.success
        /\ resp.data = SetToBag({BookView(b) : b \in {x \in DOMAIN books : Satisfies(x, req)}})

\* a GET with an author filter and a title filter has returned one Book of two
C6_Witness ==
    /\ resp.op = "GET"
    /\ req.authors.v # <<>>
    /\ Supplied(req.title)
    /\ Cardinality(DOMAIN books) = 2
    /\ BagCardinality(resp.data) = 1

(* C7: DELETE ?id=<an existing Book> removes that Book and the relationships
   incident to it and nothing else, and answers deletedCount 1; with an id
   of no Book it answers success, deletedCount 0, and changes nothing. *)
RelsWithout(rels, b, at) == [e \in {x \in BagToSet(rels) : x[at] # b} |-> CopiesIn(e, rels)]

C7_Delete ==
    [][(Idle /\ req'.op = "DELETE" /\ Supplied(req'.id)) =>
         LET b == StrToInt(req'.id.s)
         IN  /\ resp'.success
             /\ authors' = authors
             /\ genres' = genres
             /\ IF b \in DOMAIN books
                THEN /\ resp'.deletedCount = 1
                     /\ books' = [k \in DOMAIN books \ {b} |-> books[k]]
                     /\ wrote' = RelsWithout(wrote, b, 2)
                     /\ inGenre' = RelsWithout(inGenre, b, 1)
                ELSE /\ resp'.deletedCount = 0
                     /\ store' = store]_vars

\* a DELETE has removed one Book and another, with its relationships, remains
C7_Witness ==
    /\ req.op = "DELETE"
    /\ resp.deletedCount = 1
    /\ \E b \in DOMAIN books : AuthorNamesOf(b) # {} /\ GenreNamesOf(b) # {}

(* C8: a PUT with an id, a title and two arrays answers 404 "Book not found"
   if and only if no Book has that id, and answers success when one has. *)
C8_NotFoundIffAbsent ==
    [][(Idle /\ req'.op = "PUT" /\ Supplied(req'.id) /\ PutAccepts(req')) =>
         /\ (resp'.status = 404) <=> (StrToInt(req'.id.s) \notin DOMAIN books)
         /\ StrToInt(req'.id.s) \in DOMAIN books => resp'.success]_vars

(* C9: a request that ends in a validation error or in 404 leaves the store
   as it was. *)
ErrorAnswer(r) ==
    /\ ~r.success
    /\ \/ r.status \in {400, 404}
       \/ r.error \in {"Book title missing", "At least one author required",
                       "At least one genre required", "Authors must be an array",
                       "Genres must be an array"}

C9_NoWriteOnError ==
    [][(Idle /\ req'.op \in {"POST", "PUT", "DELETE"} /\ ErrorAnswer(resp')) =>
         store' = store]_vars

(* C10: a PUT on Book b changes at most b's title and the relationships
   incident to b, and may add Author and Genre nodes: every Book keeps its
   catalog id, every other Book its title and relationships, and no Author
   or Genre node is removed.  No step changes the catalog id of a Book. *)
RelsAt(rels, k, at) == [e \in {x \in BagToSet(rels) : x[at] = k} |-> CopiesIn(e, rels)]

C10_UpdateFrame ==
    [][/\ \A k \in DOMAIN books \cap DOMAIN books' :
            books'[k].bookId = books[k].bookId
       /\ (Idle /\ req'.op = "PUT") =>
            /\ DOMAIN books' = DOMAIN books
            /\ authors \subseteq authors'
            /\ genres \subseteq genres'
            /\ \A k \in DOMAIN books :
                 (~Supplied(req'.id) \/ k # StrToInt(req'.id.s)) =>
                    /\ books'[k] = books[k]
                    /\ RelsAt(wrote', k, 2) = RelsAt(wrote, k, 2)
                    /\ RelsAt(inGenre', k, 1) = RelsAt(inGenre, k, 1)]_vars

\* a PUT has succeeded on one Book of two, leaving an Author that it does not
\* name linked to the other Book only
C10_Witness ==
    /\ Succeeded("PUT")
    /\ Cardinality(DOMAIN books) = 2
    /\ \E k \in DOMAIN books, a \in authors :
         /\ k # StrToInt(Answer.id)
         /\ a.name \notin ListSet(req.authors.v)
         /\ BagIn(<<a, k>>, wrote)
         /\ books[k].bookId # Answer.bookId

====
